---- MODULE Spec2Model ----
(***************************************************************************)
(* Zero-knowledge sudoku (src/src/main.ts): Alex proves to Charlie that    *)
(* they know a solution of `problem`.  Each round Alex permutes the        *)
(* solution, commits to it, Charlie draws one of 28 requests, Alex reveals *)
(* and Charlie verifies.                                                   *)
(*                                                                         *)
(* JavaScript values are tagged records: Num(n), undefined, Str(chars),    *)
(* Arr(elements).  A JavaScript array is a sequence of such values; index  *)
(* k of the array is element k + 1 of the sequence.  A string is the       *)
(* sequence of its characters.                                             *)
(***************************************************************************)
EXTENDS Integers, Sequences, FiniteSets

VARIABLES
    pc,           \* the statement of Protocol (or of a harness) to run next
    i,            \* Protocol: the loop counter of the rounds
    shuffled,     \* shuffle: the local array being shuffled
    si,           \* shuffle: its loop counter
    draws,        \* shuffle: how many draws of this call had j # i
    permutation,  \* Protocol: const permutation of the round
    commitment,   \* Protocol: const commitment of the round
    request,      \* Protocol: const request of the round
    response,     \* Protocol: const response of the round
    result,       \* what was returned (by Protocol, Verify or hasNumbers1To9):
                  \* "none" before the return, then "true" or "false"
    verdicts,     \* history: what Verify returned in each round so far
    values,       \* the argument of a direct call of hasNumbers1To9
    globals,      \* the arrays of the module: problem, solution, requests
    commits,      \* history: for each call of Commit that is followed, the
                  \* numbers crypto.randomInt returned and the nonces used
    args,         \* the arguments of direct calls of hash: <<value, nonce>>
    digests       \* what those calls returned

vars == <<pc, i, shuffled, si, draws, permutation, commitment, request,
          response, result, verdicts, values, globals, commits, args, digests>>

----------------------------------------------------------------------------
(* Bounds of the model. *)

\* rounds of Protocol (5000 in the source)
MaxRounds == 2
\* draws of Math.random() in one shuffle that move an element (j # i)
MaxSwaps == 1
\* the first draw of crypto.randomInt(2 ** 47) in a Commit is 82 * seed, for a
\* seed of 0..MaxSeed
MaxSeed == 1
\* direct calls of hash: the integers are -1, 12 and 0..MaxInteger, the
\* sequences hold at most MaxLen of 0..MaxInteger
MaxInteger == 2
MaxLen == 2

----------------------------------------------------------------------------
(* JavaScript values and their conversions. *)

Num(n) == [type |-> "number", val |-> n]
undefined == [type |-> "undefined"]
Str(chars) == [type |-> "string", chars |-> chars]
Arr(elems) == [type |-> "array", elems |-> elems]

\* an array literal of numbers
NumArray(s) == [k \in 1..Len(s) |-> Num(s[k])]

\* array[index] for an integer index: undefined outside the array
Index(array, index) ==
    IF index \in 0..(Len(array) - 1) THEN array[index + 1] ELSE undefined

Digit(d) == <<"0", "1", "2", "3", "4", "5", "6", "7", "8", "9">>[d + 1]

RECURSIVE Digits(_)
Digits(n) == IF n < 10 THEN <<Digit(n)>> ELSE Digits(n \div 10) \o <<Digit(n % 10)>>

\* Number.prototype.toString of an integer
NumberToString(n) == IF n < 0 THEN <<"-">> \o Digits(-n) ELSE Digits(n)

RECURSIVE Join(_)
\* Array.prototype.join(","): undefined elements are the empty string
Join(elems) ==
    IF Len(elems) = 0 THEN <<>>
    ELSE LET last == elems[Len(elems)]
             text == IF last.type = "number" THEN NumberToString(last.val) ELSE <<>>
         IN  IF Len(elems) = 1 THEN text
             ELSE Join(SubSeq(elems, 1, Len(elems) - 1)) \o <<",">> \o text

\* what a template literal `${v}` makes of v
ToString(v) ==
    CASE v.type = "number" -> NumberToString(v.val)
      [] v.type = "undefined" -> <<"u", "n", "d", "e", "f", "i", "n", "e", "d">>
      [] v.type = "string" -> v.chars
      [] v.type = "array" -> Join(v.elems)

\* ToInt32(v) & 31, the shift count of 1 << v
ShiftCount(v) == IF v.type = "number" THEN v.val % 32 ELSE 0

----------------------------------------------------------------------------
(* The problem and the solution. *)

problem == <<
    7, 4, 0,  3, 0, 5,  2, 1, 0,
    0, 0, 0,  7, 0, 0,  5, 6, 0,
    0, 0, 0,  0, 8, 1,  0, 7, 0,
    0, 1, 0,  0, 2, 8,  0, 0, 7,
    2, 0, 0,  0, 4, 0,  0, 0, 6,
    9, 0, 0,  6, 3, 0,  0, 5, 0,
    0, 6, 0,  8, 5, 0,  0, 0, 0,
    0, 3, 1,  0, 0, 2,  0, 0, 0,
    0, 7, 2,  9, 0, 6,  0, 8, 3 >>

solution == <<
    7, 4, 8,  3, 6, 5,  2, 1, 9,
    1, 2, 3,  7, 9, 4,  5, 6, 8,
    6, 9, 5,  2, 8, 1,  3, 7, 4,
    3, 1, 6,  5, 2, 8,  9, 4, 7,
    2, 5, 7,  1, 4, 9,  8, 3, 6,
    9, 8, 4,  6, 3, 7,  1, 5, 2,
    4, 6, 9,  8, 5, 3,  7, 2, 1,
    8, 3, 1,  4, 7, 2,  6, 9, 5,
    5, 7, 2,  9, 1, 6,  4, 8, 3 >>

----------------------------------------------------------------------------
(* hash, hasNumbers1To9, requests. *)

\* hash with the nonce left out of the hashed string
hashWithoutNonce(value, nonce) == Str(ToString(value))

\* SHA-256 is taken to be collision-free: a digest is identified with the
\* string that was hashed, `${value}:${nonce}`.
hash(value, nonce) == Str(ToString(value) \o <<":">> \o ToString(nonce))

\* the bits set in the 32-bit integer n, 0 <= n < 2^31
Bits(n) == {b \in 0..30 : (n \div (2 ^ b)) % 2 = 1}

\* 0b1111111110
FullMask == 1022

RECURSIVE OrShifts(_, _)
\* the loop of hasNumbers1To9 over values[0..n-1]: `validation` as the set
\* of its set bits, validation |= (1 << values[i])
OrShifts(vals, n) ==
    IF n = 0 THEN {}
    ELSE OrShifts(vals, n - 1) \cup {ShiftCount(vals[n])}

\* hasNumbers1To9 comparing with 0b111111111, the bits 0..8
hasNumbers0To8(vals) == OrShifts(vals, Len(vals)) = 0..8

hasNumbers1To9(vals) == OrShifts(vals, Len(vals)) = Bits(FullMask)

\* a request: an array of indices into the permuted solution, or 'mapping'
IndexRequest(indices) == [tag |-> "indices", indices |-> indices]
MappingRequest == [tag |-> "mapping"]

\* for (let x = y * 9; x < (y + 1) * 9; x++) request.push(x)
Row(y) == [n \in 1..9 |-> y * 9 + (n - 1)]
\* for (let y = x; y < 81; y += 9) request.push(y)
Column(x) == [n \in 1..9 |-> x + 9 * (n - 1)]
\* Box pushing y * 3 + x
BoxWrongStride(bx, by) ==
    [n \in 1..9 |-> (by * 3 + ((n - 1) % 3)) * 3 + (bx * 3 + ((n - 1) \div 3))]

\* for x in bx*3..bx*3+2, for y in by*3..by*3+2: request.push(y * 9 + x)
Box(bx, by) ==
    [n \in 1..9 |-> (by * 3 + ((n - 1) % 3)) * 9 + (bx * 3 + ((n - 1) \div 3))]

requests ==
    [n \in 1..9 |-> IndexRequest(Row(n - 1))]
    \o [n \in 1..9 |-> IndexRequest(Column(n - 1))]
    \o [n \in 1..9 |-> IndexRequest(Box((n - 1) \div 3, (n - 1) % 3))]
    \o <<MappingRequest>>

----------------------------------------------------------------------------
(* Permute, Commit, Reveal, Verify. *)

\* solution.map((x) => mapping[x - 1])
PermuteGrid(sol, mapping) == [n \in 1..Len(sol) |-> Index(mapping, sol[n] - 1)]

\* the draws of crypto.randomInt(2 ** 47) of one Commit, in call order (one for
\* each cell, then one for the mapping): draw number n (from 0) is
\* 82 * seed + n * step.  With step 0 all the draws of the Commit are the same
\* number; with step 1 they all differ, and differ from those of another seed.
NonceSteps == {0, 1}
RandomInts(seed, step) ==
    [n \in 1..(Len(solution) + 1) |-> (Len(solution) + 1) * seed + (n - 1) * step]

\* Commit with gridNonces = new Array(grid.length).fill(crypto.randomInt(2 ** 47)):
\* one draw for all the cells, the next for the mapping
CommitOneNonce(perm, rnd) ==
    LET gridNonces == [n \in 1..Len(perm.grid) |-> Num(rnd[1])]
        gridHashes == [n \in 1..Len(perm.grid) |-> hash(perm.grid[n], gridNonces[n])]
        mappingNonce == Num(rnd[2])
        mappingHash == hash(Arr(perm.mapping), mappingNonce)
    IN  [gridHashes |-> gridHashes, gridNonces |-> gridNonces,
         mappingHash |-> mappingHash, mappingNonce |-> mappingNonce]

\* Commit, given the numbers crypto.randomInt returns
Commit(perm, rnd) ==
    LET gridNonces == [n \in 1..Len(perm.grid) |-> Num(rnd[n])]
        gridHashes == [n \in 1..Len(perm.grid) |-> hash(perm.grid[n], gridNonces[n])]
        mappingNonce == Num(rnd[Len(perm.grid) + 1])
        mappingHash == hash(Arr(perm.mapping), mappingNonce)
    IN  [gridHashes |-> gridHashes, gridNonces |-> gridNonces,
         mappingHash |-> mappingHash, mappingNonce |-> mappingNonce]

\* Reveal handing out the nonces of all cells
RevealAllNonces(perm, com, req) ==
    IF req.tag = "mapping"
    THEN [type |-> "mapping", mapping |-> perm.mapping, nonce |-> com.mappingNonce]
    ELSE [type |-> "values",
          values |-> [n \in 1..Len(req.indices) |-> Index(perm.grid, req.indices[n])],
          nonces |-> com.gridNonces]

\* Reveal reading the cell after the requested one
RevealShifted(perm, com, req) ==
    IF req.tag = "mapping"
    THEN [type |-> "mapping", mapping |-> perm.mapping, nonce |-> com.mappingNonce]
    ELSE [type |-> "values",
          values |-> [n \in 1..Len(req.indices) |-> Index(perm.grid, req.indices[n] + 1)],
          nonces |-> [n \in 1..Len(req.indices) |-> Index(com.gridNonces, req.indices[n])]]

Reveal(perm, com, req) ==
    IF req.tag = "mapping"
    THEN [type |-> "mapping", mapping |-> perm.mapping, nonce |-> com.mappingNonce]
    ELSE [type |-> "values",
          values |-> [n \in 1..Len(req.indices) |-> Index(perm.grid, req.indices[n])],
          nonces |-> [n \in 1..Len(req.indices) |-> Index(com.gridNonces, req.indices[n])]]

\* Verify returning true where the tags differ
VerifyTagSlip(req, resp, com) ==
    IF req.tag = "mapping"
    THEN \/ resp.type # "mapping"
         \/ /\ hash(Arr(resp.mapping), resp.nonce) = com.mappingHash
            /\ hasNumbers1To9(resp.mapping)
    ELSE \/ resp.type = "mapping"
         \/ /\ \A n \in 0..(Len(req.indices) - 1) :
                    hash(Index(resp.values, n), Index(resp.nonces, n))
                        = Index(com.gridHashes, req.indices[n + 1])
            /\ hasNumbers1To9(resp.values)

\* Verify comparing the revealed nonces with those kept in the commitment
VerifyReadsNonces(req, resp, com) ==
    IF req.tag = "mapping"
    THEN /\ resp.type = "mapping"
         /\ resp.nonce = com.mappingNonce
         /\ hash(Arr(resp.mapping), resp.nonce) = com.mappingHash
         /\ hasNumbers1To9(resp.mapping)
    ELSE /\ resp.type # "mapping"
         /\ \A n \in 0..(Len(req.indices) - 1) :
                /\ Index(resp.nonces, n) = Index(com.gridNonces, req.indices[n + 1])
                /\ hash(Index(resp.values, n), Index(resp.nonces, n))
                     = Index(com.gridHashes, req.indices[n + 1])
         /\ hasNumbers1To9(resp.values)

Verify(req, resp, com) ==
    IF req.tag = "mapping"
    THEN /\ resp.type = "mapping"
         /\ hash(Arr(resp.mapping), resp.nonce) = com.mappingHash
         /\ hasNumbers1To9(resp.mapping)
    ELSE /\ resp.type # "mapping"
         /\ \A n \in 0..(Len(req.indices) - 1) :
                hash(Index(resp.values, n), Index(resp.nonces, n))
                    = Index(com.gridHashes, req.indices[n + 1])
         /\ hasNumbers1To9(resp.values)

----------------------------------------------------------------------------
(* Protocol, statement by statement. *)

\* the arrays of the module once it is loaded
Globals == [problem |-> problem, solution |-> solution, requests |-> requests]

NoPermutation == [mapping |-> <<>>, grid |-> <<>>]
NoCommitment == [gridHashes |-> <<>>, gridNonces |-> <<>>,
                 mappingHash |-> undefined, mappingNonce |-> undefined]
NoRequest == [tag |-> "none"]
NoResponse == [type |-> "none"]

\* let rounds = 5000
rounds == MaxRounds

Init ==
    /\ pc = "for"
    /\ i = 0
    /\ shuffled = <<>>
    /\ si = 0
    /\ draws = 0
    /\ permutation = NoPermutation
    /\ commitment = NoCommitment
    /\ request = NoRequest
    /\ response = NoResponse
    /\ result = "none"
    /\ verdicts = <<>>
    /\ values = <<>>
    /\ globals = Globals
    /\ commits = <<>>
    /\ args = <<>>
    /\ digests = <<>>

\* the loop test written i <= rounds
ForOneMore ==
    /\ pc = "for"
    /\ IF i <= rounds
       THEN pc' = "Permute" /\ result' = result
       ELSE pc' = "done" /\ result' = "true"
    /\ UNCHANGED <<i, shuffled, si, draws, permutation, commitment, request,
                   response, verdicts, values,
                   globals, commits, args, digests>>

\* for (let i = 0; i < rounds; i++): the test; after the loop, return true
For ==
    /\ pc = "for"
    /\ IF i < rounds
       THEN pc' = "Permute" /\ result' = result
       ELSE pc' = "done" /\ result' = "true"
    /\ UNCHANGED <<i, shuffled, si, draws, permutation, commitment, request,
                   response, verdicts, values,
                   globals, commits, args, digests>>

\* Permute calls shuffle([1..9]): const shuffled = array.slice(), i = length - 1
PermuteCall ==
    /\ pc = "Permute"
    /\ shuffled' = NumArray(<<1, 2, 3, 4, 5, 6, 7, 8, 9>>)
    /\ si' = Len(shuffled') - 1
    /\ draws' = 0
    /\ pc' = "shuffle"
    /\ UNCHANGED <<i, permutation, commitment, request, response, result,
                   verdicts, values,
                   globals, commits, args, digests>>

\* the swap written without the temporary: shuffled[i] = shuffled[j];
\* shuffled[j] = shuffled[i]
ShuffleSwapNoTemp ==
    /\ pc = "shuffle"
    /\ si > 0
    /\ \E j \in 0..si :
        /\ j = si \/ draws < MaxSwaps
        /\ draws' = IF j = si THEN draws ELSE draws + 1
        /\ shuffled' = [shuffled EXCEPT ![si + 1] = shuffled[j + 1]]
    /\ si' = si - 1
    /\ UNCHANGED <<pc, i, permutation, commitment, request, response, result,
                   verdicts, values,
                   globals, commits, args, digests>>

\* one iteration of shuffle's loop: j = Math.floor(Math.random() * (i + 1))
ShuffleSwap ==
    /\ pc = "shuffle"
    /\ si > 0
    /\ \E j \in 0..si :
        /\ j = si \/ draws < MaxSwaps
        /\ draws' = IF j = si THEN draws ELSE draws + 1
        /\ shuffled' = [shuffled EXCEPT ![si + 1] = shuffled[j + 1],
                                        ![j + 1] = shuffled[si + 1]]
    /\ si' = si - 1
    /\ UNCHANGED <<pc, i, permutation, commitment, request, response, result,
                   verdicts, values,
                   globals, commits, args, digests>>

\* Permute relabelling the solution where it is: solution[i] = mapping[x - 1]
PermuteReturnInPlace ==
    /\ pc = "shuffle"
    /\ si = 0
    /\ globals' = [globals EXCEPT
                     !.solution = [n \in 1..Len(globals.solution) |->
                                      shuffled[globals.solution[n]].val]]
    /\ permutation' = [mapping |-> shuffled,
                       grid |-> PermuteGrid(globals.solution, shuffled)]
    /\ shuffled' = <<>>
    /\ draws' = 0
    /\ pc' = "Commit"
    /\ UNCHANGED <<i, si, commitment, request, response, result, verdicts, values,
                   commits, args, digests>>

\* shuffle returns; Permute maps the solution and returns { mapping, grid }
PermuteReturn ==
    /\ pc = "shuffle"
    /\ si = 0
    /\ permutation' = [mapping |-> shuffled,
                       grid |-> PermuteGrid(globals.solution, shuffled)]
    /\ shuffled' = <<>>
    /\ draws' = 0
    /\ pc' = "Commit"
    /\ UNCHANGED <<i, si, commitment, request, response, result, verdicts, values,
                   globals, commits, args, digests>>

\* const commitment = Commit(permutation)
CommitStep ==
    /\ pc = "Commit"
    /\ \E seed \in 0..MaxSeed, step \in NonceSteps :
        commitment' = Commit(permutation, RandomInts(seed, step))
    /\ pc' = "request"
    /\ UNCHANGED <<i, shuffled, si, draws, permutation, request, response,
                   result, verdicts, values,
                   globals, commits, args, digests>>

\* const request = requests[crypto.randomInt(requests.length)]
Challenge ==
    /\ pc = "request"
    /\ \E n \in 0..(Len(globals.requests) - 1) : request' = globals.requests[n + 1]
    /\ pc' = "Reveal"
    /\ UNCHANGED <<i, shuffled, si, draws, permutation, commitment, response,
                   result, verdicts, values,
                   globals, commits, args, digests>>

\* Reveal committing anew before it answers
RevealStepRecommits ==
    /\ pc = "Reveal"
    /\ commitment' = Commit(permutation, RandomInts(0, 1))
    /\ response' = Reveal(permutation, commitment', request)
    /\ pc' = "Verify"
    /\ UNCHANGED <<i, shuffled, si, draws, permutation, request,
                   result, verdicts, values,
                   globals, commits, args, digests>>

\* const response = Reveal(permutation, commitment, request)
RevealStep ==
    /\ pc = "Reveal"
    /\ response' = Reveal(permutation, commitment, request)
    /\ pc' = "Verify"
    /\ UNCHANGED <<i, shuffled, si, draws, permutation, commitment, request,
                   result, verdicts, values,
                   globals, commits, args, digests>>

\* the round's verdict ignored: the loop goes on after a failed Verify
VerifyStepGoesOn ==
    /\ pc = "Verify"
    /\ verdicts' = Append(verdicts, Verify(request, response, commitment))
    /\ i' = i + 1
    /\ pc' = "for"
    /\ permutation' = NoPermutation
    /\ commitment' = NoCommitment
    /\ request' = NoRequest
    /\ response' = NoResponse
    /\ UNCHANGED <<shuffled, si, draws, result, values,
                   globals, commits, args, digests>>

\* if (!Verify(request, response, commitment)) { return false }  then i++.
\* The round's constants (permutation, commitment, request, response) go
\* out of scope with the loop body.
VerifyStep ==
    /\ pc = "Verify"
    /\ LET ok == Verify(request, response, commitment)
       IN  /\ verdicts' = Append(verdicts, ok)
           /\ IF ok
              THEN /\ i' = i + 1
                   /\ pc' = "for"
                   /\ result' = result
              ELSE /\ i' = i
                   /\ pc' = "done"
                   /\ result' = "false"
    /\ permutation' = NoPermutation
    /\ commitment' = NoCommitment
    /\ request' = NoRequest
    /\ response' = NoResponse
    /\ UNCHANGED <<shuffled, si, draws, values,
                   globals, commits, args, digests>>

Next ==
    \/ For
    \/ PermuteCall
    \/ ShuffleSwap
    \/ PermuteReturn
    \/ CommitStep
    \/ Challenge
    \/ RevealStep
    \/ VerifyStep

Spec == Init /\ [][Next]_vars

----------------------------------------------------------------------------
(* A cheating Alex.  "Alex may cheat": Charlie's side (the catalogue, the  *)
(* choice of the request, Verify and the loop of Protocol) is the code's;  *)
(* what Alex commits to and what Alex answers is any of a bounded set of   *)
(* honest and dishonest choices.                                           *)

Bool(b) == IF b THEN "true" ELSE "false"

Identity == NumArray(<<1, 2, 3, 4, 5, 6, 7, 8, 9>>)

\* array with the elements at indices a and b exchanged
Exchange(array, a, b) ==
    [array EXCEPT ![a + 1] = array[b + 1], ![b + 1] = array[a + 1]]

\* array with the element at index a replaced by v
Replace(array, a, v) == [array EXCEPT ![a + 1] = v]

DropLast(array) == SubSeq(array, 1, Len(array) - 1)

\* numbers put in place of the number n: zero, another digit of 1..9, and
\* the number with the same low five bits
Forgeries(n) == {0, (n % 9) + 1, n + 32}

\* the solution with its first two rows exchanged: a completed sudoku that
\* does not solve `problem`
OtherSudoku ==
    [n \in 1..81 |-> IF n <= 9 THEN solution[n + 9]
                     ELSE IF n <= 18 THEN solution[n - 9] ELSE solution[n]]

\* what Alex may commit to
AlexPermutations ==
    \* what Permute returns for two of the mappings
    { [mapping |-> m, grid |-> PermuteGrid(solution, m)] :
        m \in {Identity, Exchange(Identity, 0, 1)} }
    \* a completed sudoku that is not a solution of the problem
    \cup { [mapping |-> Identity, grid |-> PermuteGrid(OtherSudoku, Identity)] }
    \* the solution with one cell forged
    \cup { [mapping |-> Identity,
            grid |-> Replace(PermuteGrid(solution, Identity), 7, Num(v))] :
            v \in Forgeries(solution[8]) }
    \* a forged, a longer and a shorter mapping
    \cup { [mapping |-> m, grid |-> PermuteGrid(solution, Identity)] :
            m \in { Replace(Identity, 0, Num(v)) : v \in Forgeries(1) }
                  \cup {Identity \o <<Num(9)>>, DropLast(Identity)} }

\* what Alex may answer to the request req, having committed com to perm
AlexResponses(perm, com, req) ==
    LET honest == Reveal(perm, com, req)
        last == IF req.tag = "mapping" THEN 0 ELSE Len(req.indices) - 1
    IN  {honest}
        \cup (IF req.tag = "mapping"
              THEN { Reveal(perm, com, requests[1]),
                     [honest EXCEPT !.mapping = Exchange(honest.mapping, 0, 1)],
                     [honest EXCEPT !.mapping = honest.mapping \o <<Num(9)>>],
                     [honest EXCEPT !.nonce = Num(honest.nonce.val + 1)] }
              ELSE { Reveal(perm, com, MappingRequest),
                     [honest EXCEPT !.values = honest.values \o <<Num(9)>>,
                                    !.nonces = honest.nonces \o <<Num(0)>>],
                     [honest EXCEPT !.values = DropLast(honest.values),
                                    !.nonces = DropLast(honest.nonces)] }
                   \cup { [honest EXCEPT !.values =
                               Replace(honest.values, p,
                                       Num((honest.values[p + 1].val % 9) + 1))] :
                           p \in {0, last} }
                   \cup { [honest EXCEPT !.nonces =
                               Replace(honest.nonces, p,
                                       Num(honest.nonces[p + 1].val + 1))] :
                           p \in {0, last} })

\* Alex commits to a permutation of their choosing, by Commit, with nonces
\* that all differ
AlexCommit ==
    /\ pc = "Permute"
    /\ \E perm \in AlexPermutations, seed \in 0..MaxSeed :
        /\ permutation' = perm
        /\ commitment' = Commit(perm, RandomInts(seed, 1))
    /\ pc' = "request"
    /\ UNCHANGED <<i, shuffled, si, draws, request, response, result,
                   verdicts, values,
                   globals, commits, args, digests>>

\* Alex answers the request
AlexReveal ==
    /\ pc = "Reveal"
    /\ response' \in AlexResponses(permutation, commitment, request)
    /\ pc' = "Verify"
    /\ UNCHANGED <<i, shuffled, si, draws, permutation, commitment, request,
                   result, verdicts, values,
                   globals, commits, args, digests>>

\* Protocol against an Alex who may cheat.  Protocol is one sequential
\* program: it takes its next step as long as it has one.
CheatNext ==
    \/ For
    \/ AlexCommit
    \/ Challenge
    \/ AlexReveal
    \/ VerifyStep

CheatSpec == Init /\ [][CheatNext]_vars /\ WF_vars(CheatNext)

----------------------------------------------------------------------------
(* Verify, called once on what a cheating Alex may send. *)

VerifyInit ==
    /\ pc = "call"
    /\ i = 0
    /\ shuffled = <<>>
    /\ si = 0
    /\ draws = 0
    /\ permutation \in AlexPermutations
    /\ \E seed \in 0..MaxSeed, step \in NonceSteps :
        commitment = Commit(permutation, RandomInts(seed, step))
    /\ \E n \in 0..(Len(requests) - 1) : request = requests[n + 1]
    /\ response \in AlexResponses(permutation, commitment, request)
    /\ result = "none"
    /\ verdicts = <<>>
    /\ values = <<>>
    /\ globals = Globals
    /\ commits = <<>>
    /\ args = <<>>
    /\ digests = <<>>

VerifyCall ==
    /\ pc = "call"
    /\ result' = Bool(Verify(request, response, commitment))
    /\ pc' = "returned"
    /\ UNCHANGED <<i, shuffled, si, draws, permutation, commitment, request,
                   response, verdicts, values,
                   globals, commits, args, digests>>

VerifySpec == VerifyInit /\ [][VerifyCall]_vars

----------------------------------------------------------------------------
(* hasNumbers1To9, called once on an array of numbers. *)

\* the arrays it is called on: two permutations of 1..9, and each of them
\* with one number forged, one number appended, or the last number dropped
NumberArrays ==
    UNION { {base, DropLast(base)}
            \cup { Replace(base, p, Num(v)) :
                     p \in 0..8, v \in UNION {Forgeries(n) : n \in 1..9} }
            \cup { base \o <<Num(v)>> : v \in 0..9 }
          : base \in {Identity, Exchange(Identity, 0, 8)} }

HasNumbersInit ==
    /\ pc = "call"
    /\ i = 0
    /\ shuffled = <<>>
    /\ si = 0
    /\ draws = 0
    /\ permutation = NoPermutation
    /\ commitment = NoCommitment
    /\ request = NoRequest
    /\ response = NoResponse
    /\ result = "none"
    /\ verdicts = <<>>
    /\ values \in NumberArrays
    /\ globals = Globals
    /\ commits = <<>>
    /\ args = <<>>
    /\ digests = <<>>

HasNumbersCall ==
    /\ pc = "call"
    /\ result' = Bool(hasNumbers1To9(values))
    /\ pc' = "returned"
    /\ UNCHANGED <<i, shuffled, si, draws, permutation, commitment, request,
                   response, verdicts, values,
                   globals, commits, args, digests>>

HasNumbersSpec == HasNumbersInit /\ [][HasNumbersCall]_vars

----------------------------------------------------------------------------
(* hash, called on two pairs of a value and a nonce. *)

HashIntegers == {-1, 12} \cup (0..MaxInteger)

\* the arrays of at most MaxLen integers of 0..MaxInteger
HashSequences ==
    UNION {[1..len -> {Num(n) : n \in 0..MaxInteger}] : len \in 0..MaxLen}

\* the pairs <<value, nonce>>: value an integer or an array of integers, nonce
\* an integer
HashArguments ==
    ({Num(n) : n \in HashIntegers} \cup {Arr(elems) : elems \in HashSequences})
        \X {Num(n) : n \in HashIntegers}

HashInit ==
    /\ pc = "call"
    /\ i = 0
    /\ shuffled = <<>>
    /\ si = 0
    /\ draws = 0
    /\ permutation = NoPermutation
    /\ commitment = NoCommitment
    /\ request = NoRequest
    /\ response = NoResponse
    /\ result = "none"
    /\ verdicts = <<>>
    /\ values = <<>>
    /\ globals = Globals
    /\ commits = <<>>
    /\ args \in HashArguments \X HashArguments
    /\ digests = <<>>

HashCall ==
    /\ pc = "call"
    /\ digests' = [k \in 1..Len(args) |-> hash(args[k][1], args[k][2])]
    /\ pc' = "returned"
    /\ UNCHANGED <<i, shuffled, si, draws, permutation, commitment, request,
                   response, result, verdicts, values, globals, commits, args>>

HashSpec == HashInit /\ [][HashCall]_vars

----------------------------------------------------------------------------
(* Reveal, then Verify on its response, called once on a permutation of    *)
(* the solution, a commitment to it and a request of the catalogue or      *)
(* another index sequence, short, repeating or with an index outside the   *)
(* grid.  No statement of Reveal or Verify throws: reading an array past    *)
(* its end yields undefined, `${undefined}` is "undefined" and              *)
(* 1 << undefined is 1; so result is never "error".                         *)

OtherIndexSequences ==
    { <<>>, <<0>>, <<80, 0>>, <<40, 40>>,
      <<81>>, <<-1>>, <<0, 81>>, <<100, 3>>,
      <<0, 1, 2, 3, 4, 5, 6, 7, 81>>,
      <<-1, 1, 2, 3, 4, 5, 6, 7, 8>>,
      <<72, 73, 74, 75, 76, 77, 78, 79, 80, 81>> }

RevealInit ==
    /\ pc = "call"
    /\ i = 0
    /\ shuffled = <<>>
    /\ si = 0
    /\ draws = 0
    /\ \E mapping \in {Identity, Exchange(Identity, 0, 8)} :
        permutation = [mapping |-> mapping, grid |-> PermuteGrid(solution, mapping)]
    /\ \E seed \in 0..MaxSeed, step \in NonceSteps :
        commitment = Commit(permutation, RandomInts(seed, step))
    /\ request \in {requests[n] : n \in 1..Len(requests)}
                    \cup {IndexRequest(s) : s \in OtherIndexSequences}
    /\ response = NoResponse
    /\ result = "none"
    /\ verdicts = <<>>
    /\ values = <<>>
    /\ globals = Globals
    /\ commits = <<>>
    /\ args = <<>>
    /\ digests = <<>>

RevealCall ==
    /\ pc = "call"
    /\ response' = Reveal(permutation, commitment, request)
    /\ pc' = "revealed"
    /\ UNCHANGED <<i, shuffled, si, draws, permutation, commitment, request,
                   result, verdicts, values, globals, commits, args, digests>>

VerifyRevealed ==
    /\ pc = "revealed"
    /\ result' = Bool(Verify(request, response, commitment))
    /\ pc' = "returned"
    /\ UNCHANGED <<i, shuffled, si, draws, permutation, commitment, request,
                   response, verdicts, values, globals, commits, args, digests>>

RevealNext == RevealCall \/ VerifyRevealed

RevealSpec == RevealInit /\ [][RevealNext]_vars

----------------------------------------------------------------------------
(* Vocabulary of the properties. *)

Range(array) == {array[n] : n \in 1..Len(array)}

\* array is a sequence of exactly 9 numbers, each of 1..9 exactly once
IsPermutation1To9(array) ==
    /\ Len(array) = 9
    /\ \A n \in 1..9 : array[n].type = "number"
    /\ {array[n].val : n \in 1..9} = 1..9

\* the index requests of the catalogue: the rows, the columns and the boxes
Houses == {requests[n].indices : n \in 1..27}

\* s (81 integers) is a completed sudoku that agrees with the problem's givens
IsSolutionOfProblem(s) ==
    /\ \A house \in Houses : {s[house[n] + 1] : n \in 1..9} = 1..9
    /\ \A n \in 1..81 : problem[n] # 0 => s[n] = problem[n]

\* perm.grid is a solution of the problem relabelled by the bijection perm.mapping
IsRelabelledSolution(perm) ==
    /\ IsPermutation1To9(perm.mapping)
    /\ Len(perm.grid) = 81
    /\ \A n \in 1..81 : perm.grid[n] \in Range(perm.mapping)
    /\ IsSolutionOfProblem(
         [n \in 1..81 |-> CHOOSE v \in 1..9 : perm.mapping[v] = perm.grid[n]])

\* com is what Commit makes of perm, for the nonces it holds
IsCommitmentTo(com, perm) ==
    /\ Len(com.gridNonces) = Len(perm.grid)
    /\ com.gridHashes =
         [n \in 1..Len(perm.grid) |-> hash(perm.grid[n], com.gridNonces[n])]
    /\ com.mappingHash = hash(Arr(perm.mapping), com.mappingNonce)

\* the round in hand is an honest one: the permutation is one Permute can
\* return, the commitment is Commit's and the response is Reveal's
HonestRound ==
    /\ response = Reveal(permutation, commitment, request)
    /\ IsPermutation1To9(permutation.mapping)
    /\ permutation.grid = PermuteGrid(solution, permutation.mapping)
    /\ IsCommitmentTo(commitment, permutation)

\* every position of the index request opens to the committed hash
OpensCommitment(req, resp, com) ==
    \A n \in 0..(Len(req.indices) - 1) :
        hash(Index(resp.values, n), Index(resp.nonces, n))
            = Index(com.gridHashes, req.indices[n + 1])

\* the cells an index request opens, and the others
Opened(req) == {req.indices[n] : n \in 1..Len(req.indices)}
Unopened(req) == (0..80) \ Opened(req)

\* the 82 draws of the commitment's nonces are pairwise different
NoncesDiffer(com) ==
    Cardinality(Range(com.gridNonces) \cup {com.mappingNonce})
        = Len(com.gridNonces) + 1

----------------------------------------------------------------------------
(* Protocol with the calls of Commit followed: every call records the      *)
(* numbers crypto.randomInt returned to it and the nonces it put in the    *)
(* commitment.  The draws of shuffle are all j = i here.                    *)

\* one iteration of shuffle's loop with the draw j = i: the cell is swapped
\* with itself
ShuffleKeep ==
    /\ pc = "shuffle"
    /\ si > 0
    /\ si' = si - 1
    /\ UNCHANGED <<pc, i, shuffled, draws, permutation, commitment, request,
                   response, result, verdicts, values,
                   globals, commits, args, digests>>

\* const commitment = Commit(permutation), recorded in commits
CommitFollowed ==
    /\ pc = "Commit"
    /\ \E seed \in 0..MaxSeed, step \in NonceSteps :
        LET rnd == RandomInts(seed, step)
            com == Commit(permutation, rnd)
        IN  /\ commitment' = com
            /\ commits' = Append(commits,
                    [rnd |-> rnd, nonces |-> com.gridNonces \o <<com.mappingNonce>>])
    /\ pc' = "request"
    /\ UNCHANGED <<i, shuffled, si, draws, permutation, request, response,
                   result, verdicts, values, globals, args, digests>>

NonceNext ==
    \/ For
    \/ PermuteCall
    \/ ShuffleKeep
    \/ PermuteReturn
    \/ CommitFollowed
    \/ Challenge
    \/ RevealStep
    \/ VerifyStep

NonceSpec == Init /\ [][NonceNext]_vars

----------------------------------------------------------------------------
(* The properties. *)

\* C1: honest-prover completeness. When Permute and Commit have run, Verify
\* accepts Reveal's response to every one of the 28 requests of the
\* catalogue, whatever mapping shuffle produced and whatever nonces were
\* drawn; and every Verify of the run has returned true.
Completeness ==
    /\ pc = "request" =>
         \A n \in 1..Len(requests) :
             Verify(requests[n], Reveal(permutation, commitment, requests[n]),
                    commitment)
    /\ \A k \in 1..Len(verdicts) : verdicts[k]

\* a second round, on a shuffled mapping, revealed for the last box
CompletenessWitness ==
    /\ pc = "Verify"
    /\ verdicts = <<TRUE>>
    /\ permutation.mapping # Identity
    /\ request = requests[27]
    /\ response = Reveal(permutation, commitment, request)

\* C2: soundness of a round. If the committed grid is not a solution of
\* `problem` relabelled by the committed mapping, some request of the
\* catalogue has no accepted response, so a cheating Alex passes at most 27
\* of the 28 requests.
Soundness ==
    ~IsRelabelledSolution(permutation) =>
        \E n \in 1..Len(requests) :
            \A resp \in AlexResponses(permutation, commitment, requests[n]) :
                ~Verify(requests[n], resp, commitment)

\* C3: abort on first failure. When Verify returns false, Protocol returns
\* false in that step, and once it has returned false no step of any round
\* is taken.
AbortOnFirstFailure ==
    [][ /\ (pc = "Verify" /\ ~Verify(request, response, commitment))
            => (pc' = "done" /\ result' = "false" /\ i' = i)
        /\ result = "false" => UNCHANGED vars ]_vars

\* the first of the rounds failed and Protocol has returned false
AbortWitness ==
    /\ pc = "done"
    /\ result = "false"
    /\ verdicts = <<FALSE>>
    /\ i = 0
    /\ rounds > 1

\* C4: Protocol terminates; it returns true if and only if exactly `rounds`
\* rounds were run and Verify returned true in each; and Verify returns true
\* in every round in which Alex followed Permute, Commit and Reveal, so that
\* the honest run returns true.
ProtocolOutcome ==
    /\ <>(pc = "done")
    /\ [](pc = "done" =>
            /\ result \in {"true", "false"}
            /\ result = "true" <=>
                 (Len(verdicts) = rounds /\ \A k \in 1..Len(verdicts) : verdicts[k])
            /\ (\A k \in 1..Len(verdicts) : verdicts[k]) => result = "true")
    /\ [][(pc = "Verify" /\ HonestRound) => verdicts' = Append(verdicts, TRUE)]_vars

\* all the rounds were run and passed, and Protocol has returned true
ProtocolOutcomeWitness ==
    /\ pc = "done"
    /\ result = "true"
    /\ Len(verdicts) = rounds
    /\ i = rounds

\* C5: binding. For an index request, if at some opened position the
\* revealed (value, nonce) differs from the pair the cell's hash was
\* computed from, Verify returns false; for the mapping request, if the
\* revealed (mapping, nonce) differs from the committed one, Verify returns
\* false.
Binding ==
    (pc = "returned" /\ IsCommitmentTo(commitment, permutation)) =>
        /\ (/\ request.tag = "indices"
            /\ response.type = "values"
            /\ \E n \in 0..(Len(request.indices) - 1) :
                   <<Index(response.values, n), Index(response.nonces, n)>>
                     # <<Index(permutation.grid, request.indices[n + 1]),
                         Index(commitment.gridNonces, request.indices[n + 1])>>)
           => result = "false"
        /\ (/\ request.tag = "mapping"
            /\ response.type = "mapping"
            /\ <<response.mapping, response.nonce>>
                 # <<permutation.mapping, commitment.mappingNonce>>)
           => result = "false"

\* the committed values were revealed with the nonce of the last one altered
BindingWitness ==
    /\ pc = "returned"
    /\ request.tag = "indices"
    /\ response.type = "values"
    /\ response.values = Reveal(permutation, commitment, request).values
    /\ Len(response.nonces) = Len(request.indices)
    /\ response.nonces # Reveal(permutation, commitment, request).nonces
    /\ IsRelabelledSolution(permutation)
    /\ result = "false"

\* C6: hasNumbers1To9 returns true exactly for the sequences of 9 numbers
\* that hold each of 1..9 once; it rejects a value outside 1..9, a duplicate
\* and any other length.
MaskExact ==
    pc = "returned" => (result = "true" <=> IsPermutation1To9(values))

\* C7: tag mismatch. Verify returns false for the mapping request answered
\* by a 'values' response and for an index request answered by a 'mapping'
\* response.
TagMismatchRejected ==
    (/\ pc = "returned"
     /\ \/ request.tag = "mapping" /\ response.type = "values"
        \/ request.tag = "indices" /\ response.type = "mapping")
    => result = "false"

\* the mapping was requested and values were revealed
TagMismatchWitness ==
    /\ pc = "returned"
    /\ request.tag = "mapping"
    /\ response.type = "values"
    /\ result = "false"

\* C8: for an index request and a 'values' response, Verify accepts if and
\* only if every position of the request opens to the committed hash and
\* response.values is exactly 1..9, each once.
ValuesAcceptance ==
    (pc = "returned" /\ request.tag = "indices" /\ response.type = "values") =>
        (result = "true" <=>
            /\ OpensCommitment(request, response, commitment)
            /\ IsPermutation1To9(response.values))

\* C9: for the mapping request and a 'mapping' response, Verify accepts if
\* and only if the revealed mapping and nonce hash to mappingHash and the
\* revealed mapping is a bijection over 1..9, whatever was committed.
MappingAcceptance ==
    (pc = "returned" /\ request.tag = "mapping" /\ response.type = "mapping") =>
        (result = "true" <=>
            /\ hash(Arr(response.mapping), response.nonce) = commitment.mappingHash
            /\ IsPermutation1To9(response.mapping))

\* C10 as claimed: the response holds no nonce of an unopened cell. For an
\* index request its nonces are gridNonces at the requested indices, and
\* neither the nonce of an unopened cell nor the mapping nonce is among
\* them; for the mapping request it holds no grid value, and its nonce is
\* no grid nonce.
HidesUnopenedNonces ==
    pc = "Verify" =>
        /\ request.tag = "indices" =>
             /\ DOMAIN response = {"type", "values", "nonces"}
             /\ response.nonces =
                  [n \in 1..Len(request.indices) |->
                      Index(commitment.gridNonces, request.indices[n])]
             /\ \A c \in Unopened(request) :
                    Index(commitment.gridNonces, c) \notin Range(response.nonces)
             /\ commitment.mappingNonce \notin Range(response.nonces)
        /\ request.tag = "mapping" =>
             /\ DOMAIN response = {"type", "mapping", "nonce"}
             /\ response.nonce \notin Range(commitment.gridNonces)

\* C10 as amended: the response is made of the opened entries alone. For an
\* index request its nonces are gridNonces at the requested indices, one
\* for one, and it has no field for the mapping or its nonce; for the
\* mapping request it has the mapping and mappingNonce and no field for grid
\* values or grid nonces. When the nonces Commit drew are pairwise
\* different, no nonce of an unopened cell, and for an index request not the
\* mapping nonce, is in the response.
RevealsOpenedOnly ==
    pc = "Verify" =>
        /\ request.tag = "indices" =>
             /\ DOMAIN response = {"type", "values", "nonces"}
             /\ response.nonces =
                  [n \in 1..Len(request.indices) |->
                      Index(commitment.gridNonces, request.indices[n])]
             /\ NoncesDiffer(commitment) =>
                  /\ \A c \in Unopened(request) :
                         Index(commitment.gridNonces, c) \notin Range(response.nonces)
                  /\ commitment.mappingNonce \notin Range(response.nonces)
        /\ request.tag = "mapping" =>
             /\ DOMAIN response = {"type", "mapping", "nonce"}
             /\ response.nonce = commitment.mappingNonce
             /\ NoncesDiffer(commitment) =>
                  response.nonce \notin Range(commitment.gridNonces)

\* a column was revealed from a commitment whose nonces all differ
RevealsOpenedOnlyWitness ==
    /\ pc = "Verify"
    /\ request = requests[10]
    /\ NoncesDiffer(commitment)
    /\ Len(response.nonces) = 9

\* the cells of row r, of column c and of the box in box-row br and
\* box-column bc of the row-major 9x9 grid
RowCells(r) == {c \in 0..80 : c \div 9 = r}
ColumnCells(c) == {x \in 0..80 : x % 9 = c}
BoxCells(br, bc) == {x \in 0..80 : (x \div 9) \div 3 = br /\ (x % 9) \div 3 = bc}

\* the sets in S are pairwise disjoint and cover the 81 cells
PartitionsGrid(S) ==
    /\ UNION S = 0..80
    /\ \A a, b \in S : a # b => a \cap b = {}

\* C11: bijection correctness. While shuffle runs, after every swap, the
\* array is a permutation of 1..9; every Permutation Permute has returned has
\* a mapping that is a bijection on 1..9 and a grid of 81 cells with
\* grid[i] = mapping[solution[i] - 1].
BijectionCorrect ==
    /\ pc = "shuffle" => IsPermutation1To9(shuffled)
    /\ permutation # NoPermutation =>
         /\ IsPermutation1To9(permutation.mapping)
         /\ Len(permutation.grid) = 81
         /\ \A n \in 1..81 : permutation.grid[n] = permutation.mapping[solution[n]]

\* Permute has returned a mapping that moves 1, and the 1 in the eighth cell
\* of the solution is relabelled by it
BijectionWitness ==
    /\ pc = "Commit"
    /\ permutation.mapping[1] # Num(1)
    /\ permutation.grid[8] = permutation.mapping[1]

\* C12: the catalogue, read when the loop of the rounds is tested and when
\* a request is about to be drawn from it, has 28 pairwise different entries:
\* the 9 rows, the 9 columns, the 9 boxes and 'mapping'. Every index
\* sequence holds 9 different indices of 0..80, the cells of one row, one
\* column or one box; the rows, the columns and the boxes each partition the
\* 81 cells.
CatalogueCorrect ==
    pc \in {"for", "request"} =>
        /\ Len(globals.requests) = 28
        /\ \A a, b \in 1..28 : a # b => globals.requests[a] # globals.requests[b]
        /\ globals.requests[28] = MappingRequest
        /\ \A n \in 1..27 :
             /\ globals.requests[n].tag = "indices"
             /\ Len(globals.requests[n].indices) = 9
             /\ Cardinality(Opened(globals.requests[n])) = 9
             /\ Opened(globals.requests[n]) \subseteq 0..80
        /\ {Opened(globals.requests[n]) : n \in 1..9} = {RowCells(r) : r \in 0..8}
        /\ {Opened(globals.requests[n]) : n \in 10..18}
             = {ColumnCells(c) : c \in 0..8}
        /\ {Opened(globals.requests[n]) : n \in 19..27}
             = {BoxCells(br, bc) : br, bc \in 0..2}
        /\ PartitionsGrid({Opened(globals.requests[n]) : n \in 1..9})
        /\ PartitionsGrid({Opened(globals.requests[n]) : n \in 10..18})
        /\ PartitionsGrid({Opened(globals.requests[n]) : n \in 19..27})

\* the request drawn is the last box of the catalogue, the cells of the
\* bottom right box, pushed column by column
CatalogueWitness ==
    /\ pc = "Reveal"
    /\ request = globals.requests[27]
    /\ Opened(request) = BoxCells(2, 2)
    /\ request.indices = <<60, 69, 78, 61, 70, 79, 62, 71, 80>>

\* C13: commitment then challenge. The steps of a round are taken in the
\* order Permute, Commit, choice of the request, Reveal, Verify; the request
\* is chosen when the commitment exists, and neither the permutation nor the
\* commitment changes from then to Verify, nor the request from its choice
\* to Verify; a round starts only when every Verify before it returned true.
CommitThenChallenge ==
    [][ /\ pc = "for" => pc' \in {"Permute", "done"}
        /\ pc = "Permute" => pc' = "shuffle"
        /\ pc = "shuffle" => pc' \in {"shuffle", "Commit"}
        /\ pc = "Commit" =>
             /\ pc' = "request"
             /\ permutation # NoPermutation /\ permutation' = permutation
             /\ commitment = NoCommitment /\ commitment' # NoCommitment
             /\ request' = NoRequest
        /\ pc = "request" =>
             /\ pc' = "Reveal"
             /\ request = NoRequest /\ request' # NoRequest
             /\ permutation' = permutation /\ commitment' = commitment
             /\ response' = NoResponse
        /\ pc = "Reveal" =>
             /\ pc' = "Verify"
             /\ response = NoResponse /\ response' # NoResponse
             /\ permutation' = permutation /\ commitment' = commitment
             /\ request' = request
        /\ pc = "Verify" =>
             /\ pc' \in {"for", "done"}
             /\ verdicts' = Append(verdicts, Verify(request, response, commitment))
        /\ pc = "done" => FALSE
        /\ pc' = "Permute" =>
             /\ Len(verdicts') = i'
             /\ \A k \in 1..Len(verdicts') : verdicts'[k] ]_vars

\* the second round has come to its Verify, for the mapping request
CommitThenChallengeWitness ==
    /\ pc = "Verify"
    /\ i = 1
    /\ verdicts = <<TRUE>>
    /\ request = MappingRequest
    /\ response.type = "mapping"

\* the numbers of the sequences seqs[1], seqs[2], ... taken together
AllOf(seqs) == UNION {Range(seqs[k]) : k \in 1..Len(seqs)}

\* how many numbers the sequences hold, counted with repetition
CountOf(seqs) == Len(seqs) * (Len(solution) + 1)

\* the numbers crypto.randomInt returned to the calls of Commit so far are
\* pairwise different
DrawsDiffer ==
    Cardinality(AllOf([k \in 1..Len(commits) |-> commits[k].rnd])) = CountOf(commits)

\* C14 as stated: nonce freshness. Across the run no nonce is used twice,
\* neither for two cells (or a cell and the mapping) of one commitment nor
\* in the commitments of two rounds.
NonceFreshness ==
    /\ \A k \in 1..Len(commits) : Len(commits[k].nonces) = Len(solution) + 1
    /\ Cardinality(AllOf([k \in 1..Len(commits) |-> commits[k].nonces]))
         = CountOf(commits)

\* C14, amended: every Commit draws 82 numbers and uses each of them once,
\* draw n for cell n and the last for the mapping, and none of an earlier
\* round; the commitment of the round holds these nonces. So when the
\* numbers drawn in the run are pairwise different, no nonce is used twice
\* across cells, mapping and rounds.
NoncesAreOwnDraws ==
    /\ \A k \in 1..Len(commits) :
         /\ Len(commits[k].rnd) = Len(solution) + 1
         /\ Len(commits[k].nonces) = Len(solution) + 1
         /\ \A n \in 1..(Len(solution) + 1) :
                commits[k].nonces[n] = Num(commits[k].rnd[n])
    /\ pc \in {"request", "Reveal", "Verify"} =>
         /\ Len(commits) = i + 1
         /\ commitment.gridNonces \o <<commitment.mappingNonce>>
              = commits[Len(commits)].nonces
    /\ DrawsDiffer => NonceFreshness

\* the second round has committed, and the 164 numbers drawn in the two
\* rounds are pairwise different
NoncesAreOwnDrawsWitness ==
    /\ pc = "Verify"
    /\ Len(commits) = 2
    /\ DrawsDiffer
    /\ commits[1].nonces[82] # commits[2].nonces[82]

\* C15: the serialization `${value}:${nonce}` that hash digests is injective:
\* two different pairs of a value (an integer or a sequence of integers) and
\* a nonce are never hashed to the same digest; a sequence of one element
\* and that element do not collapse.
SerializationInjective ==
    pc = "returned" =>
        (args[1] # args[2] => digests[1] # digests[2])

\* C16: the response of Reveal is matched to the request. To 'mapping' it is
\* exactly type 'mapping', the permutation's mapping and the commitment's
\* mappingNonce. To an index sequence of length n it is exactly type
\* 'values', n values and n nonces, values[k] = permutation.grid[request[k]]
\* and nonces[k] = commitment.gridNonces[request[k]], in the order of the
\* request; to row 0 the values are grid[0..8].
RevealMatchesRequest ==
    pc \in {"revealed", "returned"} =>
        /\ request.tag = "mapping" =>
             response = [type |-> "mapping", mapping |-> permutation.mapping,
                         nonce |-> commitment.mappingNonce]
        /\ request.tag = "indices" =>
             /\ DOMAIN response = {"type", "values", "nonces"}
             /\ response.type = "values"
             /\ Len(response.values) = Len(request.indices)
             /\ Len(response.nonces) = Len(request.indices)
             /\ \A k \in 0..(Len(request.indices) - 1) :
                    /\ Index(response.values, k)
                         = Index(permutation.grid, Index(request.indices, k))
                    /\ Index(response.nonces, k)
                         = Index(commitment.gridNonces, Index(request.indices, k))
        /\ request = IndexRequest(Row(0)) => response.values = SubSeq(permutation.grid, 1, 9)

\* Reveal has answered row 0 for a permutation that relabels 1 as 9, and a
\* request of two cells in falling order
RevealMatchesRequestWitness ==
    /\ pc = "revealed"
    /\ permutation.mapping[1] = Num(9)
    /\ \/ /\ request = IndexRequest(Row(0))
          /\ response.values[8] = Num(9)
       \/ /\ request = IndexRequest(<<80, 0>>)
          /\ response.values = <<Num(3), Num(7)>>

\* the request holds an index that is no cell of the grid
OutOfRange(req) ==
    /\ req.tag = "indices"
    /\ \E n \in 1..Len(req.indices) : req.indices[n] \notin 0..80

\* C18: given a request with an index outside 0..80, Reveal and Verify end
\* in an error: Reveal returns no Response and Verify no boolean.
MalformedRequestFails ==
    OutOfRange(request) =>
        /\ pc = "revealed" => response = NoResponse /\ result = "error"
        /\ pc = "returned" => result = "error"

\* C17: no state is carried between rounds. No step changes the problem,
\* the solution or the catalogue; Commit and Reveal leave the permutation as
\* Permute returned it, Reveal and Verify leave the commitment as Commit
\* returned it; when Verify has returned, the permutation, the commitment,
\* the request and the response of the round are gone, and the next round
\* makes its own from a new array 1..9 and the solution.
NoCarriedState ==
    [][ /\ globals = Globals /\ globals' = Globals
        /\ pc \in {"Commit", "request", "Reveal"} => permutation' = permutation
        /\ pc \in {"request", "Reveal"} => commitment' = commitment
        /\ pc = "Reveal" => request' = request
        /\ pc \in {"for", "Permute"} =>
             /\ permutation = NoPermutation
             /\ commitment = NoCommitment
             /\ request = NoRequest
             /\ response = NoResponse
             /\ shuffled = <<>>
        /\ pc = "Permute" => shuffled' = Identity
        /\ (pc = "shuffle" /\ pc' = "Commit") =>
             /\ permutation'.mapping = shuffled
             /\ permutation'.grid = PermuteGrid(solution, shuffled)
             /\ commitment' = NoCommitment ]_vars

\* the second round has its own permutation, one that moves a number, and
\* the solution is as it was
NoCarriedStateWitness ==
    /\ pc = "Commit"
    /\ i = 1
    /\ permutation.mapping # Identity
    /\ globals.solution = solution
    /\ commitment = NoCommitment

\* the commitment with other numbers for its nonces
WithNonces(com, rnd) ==
    [com EXCEPT !.gridNonces = [n \in 1..Len(solution) |-> Num(rnd[n])],
                !.mappingNonce = Num(rnd[Len(solution) + 1])]

\* C19: Verify uses no secret of the prover. What it returns depends on the
\* request, the response, gridHashes and mappingHash only: called with the
\* commitment's gridNonces and mappingNonce replaced by other numbers, or
\* left out, it returns the same.
VerifyIgnoresNonces ==
    pc = "returned" =>
        /\ \A seed \in 0..MaxSeed, step \in NonceSteps :
               result = Bool(Verify(request, response,
                                    WithNonces(commitment, RandomInts(seed, step))))
        /\ result = Bool(Verify(request, response,
                                [commitment EXCEPT !.gridNonces = <<>>,
                                                   !.mappingNonce = undefined]))

\* Verify has accepted an honest answer to a box, for a commitment whose
\* nonces all differ; with the hashes left out as well it rejects
VerifyIgnoresNoncesWitness ==
    /\ pc = "returned"
    /\ result = "true"
    /\ request = requests[19]
    /\ response = Reveal(permutation, commitment, request)
    /\ NoncesDiffer(commitment)
    /\ ~Verify(request, response, NoCommitment)

====
